---- MODULE Spec2Model ----
(***************************************************************************)
(* Model of the scratchpad sync server: the SQLite backed operation store  *)
(* (server/src/db.rs), the HTTP and WebSocket handlers                     *)
(* (server/src/handlers.rs) and the broadcast hub created in               *)
(* server/src/main.rs.                                                     *)
(***************************************************************************)
EXTENDS Integers, Sequences, FiniteSets, TLC

\* ------------------------------------------------------------------ bounds
MaxBatch == 3     \* longest batch of one request or push frame
MaxRequests == 1  \* HTTP requests of one run of the whole server
MaxFrames == 2    \* inbound WebSocket events of one run of the whole server
MaxStoreRequests == 3  \* HTTP requests of one run without WebSocket clients
MaxFaults == 1         \* failing push_op calls of one run
MaxStoreErrors == 1    \* failing get_ops, get_snapshot, save_snapshot calls
MaxConnections == 1    \* WebSocket connections of one run of the whole server
MaxOps == 2       \* ops submitted in one run of the whole server
MaxStoreOps == 4  \* ops submitted in one run without WebSocket clients
Capacity == 1     \* slots of the broadcast ring (scaled down from channel(100))
MaxValidationRequests == 2  \* HTTP requests of one run with irregular input
MaxPairConnections == 2  \* WebSocket connections of one run with two clients
MaxPairFrames == 2  \* inbound WebSocket events of one run with two clients
MaxPairRequests == 1  \* HTTP requests of one run with two clients
MaxPairOps == 1   \* ops submitted in one run with two clients
MaxLagOps == 2    \* ops submitted in one run of the two subscribers
MaxIrregular == 1 \* empty or malformed parts of the requests of one run

Workspaces == {"A", "B"}
OpIds == {"a1", "a2"}
\* String fields also take the empty string.
AnyWorkspaces == Workspaces \cup {""}
AnyOpIds == OpIds \cup {""}
Datas == {"X", "Y"}
HttpTasks == {"h1"}
Sessions == {"s1", "s2"}
Tasks == HttpTasks \cup Sessions

None == "none"
NoTask == "free"

\* Option<i64>, Option<Snapshot>
Nothing == <<>>
Some(x) == <<x>>

\* ------------------------------------------------------------- wire types
\* models.rs Op, as the client behind task t submits it: no db_id, and the
\* client's own client_id.
ClientOps(t) ==
  [db_id : {Nothing}, id : AnyOpIds, op_type : {"t"}, payload : {"p"},
   timestamp : {"ts"}, client_id : {t}]

NoOp ==
  [db_id |-> Nothing, id |-> "", op_type |-> "", payload |-> "",
   timestamp |-> "", client_id |-> None]

Batches(t) == UNION {[1..n -> ClientOps(t)] : n \in 0..MaxBatch}

\* An element of a JSON `ops` array that lacks the required field `id`.
BadItem(t) ==
  [db_id |-> Nothing, id |-> None, op_type |-> "t", payload |-> "p",
   timestamp |-> "ts", client_id |-> t]

\* #[derive(Deserialize)] of Op: the String field is required.
IsOp(item) == item.id # None

\* the `ops` arrays of the JSON bodies a client may post
Bodies(t) == UNION {[1..n -> ClientOps(t) \cup {BadItem(t)}] : n \in 0..MaxBatch}

\* Json<PushOpsRequest>: the body deserializes when every element is an Op.
FromJson(body) == \A i \in 1..Len(body) : IsOp(body[i])

\* the empty or malformed parts of a submission
Irregular(workspace_id, body) ==
  (IF workspace_id = "" THEN 1 ELSE 0)
  + Cardinality({i \in 1..Len(body) : body[i].id = "" \/ ~IsOp(body[i])})

\* models.rs Snapshot, as a client sends it: each data comes with its own
\* last_op_id and updated_at.
ClientSnapshot(workspace_id, data) ==
  [workspace_id |-> workspace_id, data |-> data,
   last_op_id |-> IF data = "X" THEN Nothing ELSE Some("a1"),
   updated_at |-> IF data = "X" THEN "u1" ELSE "u2"]

\* models.rs WsMessage
WsMessage(msg_type, workspace_id, msg_ops) ==
  [msg_type |-> msg_type, workspace_id |-> workspace_id, ops |-> msg_ops,
   error |-> None]

VARIABLES
  ops,                \* rows of table ops
  sqlite_sequence,    \* AUTOINCREMENT high-water mark of table ops
  snapshots,          \* rows of table snapshots
  last_insert_rowid,  \* per-connection rowid of the last successful INSERT
  lock,               \* holder of Mutex<Connection>
  call,               \* per task: the push_op call in progress
  http,               \* per HTTP request task: handler position and locals
  sess,               \* per connection: handle_socket's locals and both tasks
  hub,                \* every message sent on the broadcast channel, in order
  left,               \* inputs the run may still take:
                      \* [http, ws, faults, ops, conns, bad, errors]
  owed,               \* history: per session and op, "due" once the op is
                      \* accepted while the session is subscribed, then "sent"
  first_ret           \* history: per (workspace, id), the first Ok(seq) of push_op

vars == <<ops, sqlite_sequence, snapshots, last_insert_rowid, lock, call, http,
          sess, hub, left, owed, first_ret>>

store == <<ops, sqlite_sequence, snapshots, last_insert_rowid>>

Keys == AnyWorkspaces \X AnyOpIds
Key(c) == <<c.workspace_id, c.op.id>>

\* (workspace, id) whose accepting push_op call has returned
completed == {k \in Keys : first_ret[k] # 0}

Max(S) == CHOOSE x \in S : \A y \in S : y <= x

\* the sequence the ops table holds for a stored (workspace, id)
StoredSeq(k) ==
  (CHOOSE r \in ops : r.workspace_id = k[1] /\ r.op_id = k[2]).id

\* the largest stored sequence among the ops whose accepting call has returned
Floor == Max({0} \cup {StoredSeq(k) : k \in completed})

\* ------------------------------------------------------------------ store
\* a counter that is read and not advanced
NewRowidStuck(rows, seq) ==
  Max({seq} \cup {r.id : r \in rows})

\* a counter that runs downwards
NewRowidDown(rows, seq) ==
  -Max({-seq} \cup {-r.id : r \in rows}) - 1

\* db.rs init: id INTEGER PRIMARY KEY AUTOINCREMENT
NewRowid(rows, seq) ==
  Max({seq} \cup {r.id : r \in rows}) + 1

\* the ops table without its UNIQUE constraint
ConflictsNever(workspace_id, op) == FALSE

\* db.rs init: UNIQUE(workspace_id, op_id)
Conflicts(workspace_id, op) ==
  \E r \in ops : r.workspace_id = workspace_id /\ r.op_id = op.id

OpRow(rowid, workspace_id, op) ==
  [id |-> rowid, workspace_id |-> workspace_id, op_id |-> op.id,
   op_type |-> op.op_type, payload |-> op.payload,
   timestamp |-> op.timestamp, client_id |-> op.client_id]

\* an INSERT that numbers the rows of each workspace on their own
InsertOrIgnorePerWorkspace(workspace_id, op) ==
  IF Conflicts(workspace_id, op)
  THEN UNCHANGED <<ops, last_insert_rowid, sqlite_sequence>>
  ELSE LET rowid == Cardinality({r \in ops : r.workspace_id = workspace_id}) + 1
       IN
       /\ ops' = ops \cup {OpRow(rowid, workspace_id, op)}
       /\ last_insert_rowid' = rowid
       /\ sqlite_sequence' = Max({sqlite_sequence, rowid})

\* INSERT OR REPLACE: a conflicting row is deleted and the new one inserted
InsertOrReplace(workspace_id, op) ==
  LET rowid == NewRowid(ops, sqlite_sequence) IN
  /\ ops' = {r \in ops : ~(r.workspace_id = workspace_id /\ r.op_id = op.id)}
             \cup {OpRow(rowid, workspace_id, op)}
  /\ last_insert_rowid' = rowid
  /\ sqlite_sequence' = rowid

\* The INSERT OR IGNORE statement of push_op.  An ignored insert leaves the
\* table and last_insert_rowid alone; the rowid it had drawn is not given back
\* to the AUTOINCREMENT counter.
InsertOrIgnore(workspace_id, op) ==
  IF Conflicts(workspace_id, op)
  THEN /\ ops' = ops
       /\ last_insert_rowid' = last_insert_rowid
       /\ sqlite_sequence' = NewRowid(ops, sqlite_sequence)
  ELSE LET rowid == NewRowid(ops, sqlite_sequence) IN
       /\ ops' = ops \cup {OpRow(rowid, workspace_id, op)}
       /\ last_insert_rowid' = rowid
       /\ sqlite_sequence' = rowid

IdleCall ==
  [state |-> "idle", workspace_id |-> None, op |-> NoOp, ok |-> FALSE,
   val |-> 0, fresh |-> FALSE, floor |-> 0]

\* A handler enters db.push_op(workspace_id, op) and waits for the mutex.
StartCall(workspace_id, op) ==
  [state |-> "called", workspace_id |-> workspace_id, op |-> op, ok |-> FALSE,
   val |-> 0, fresh |-> FALSE, floor |-> Floor]

\* a connection shared without the mutex
MutexAbsent == TRUE

\* a mutex that only the HTTP handlers' calls hold
MutexFreeOrWs == lock = NoTask \/ lock \in Sessions

\* let conn = self.conn.lock().unwrap(), held to the end of the call
MutexFree == lock = NoTask

\* Sessions whose read loop runs and whose subscription set holds workspace_id.
Subscribed(workspace_id) ==
  {s \in Sessions : sess[s].conn = "open" /\ workspace_id \in sess[s].subs}

Owe(t) ==
  [s \in Sessions |->
     IF s \in Subscribed(call[t].workspace_id)
     THEN [owed[s] EXCEPT ![Key(call[t])] = "due"] ELSE owed[s]]

\* the session no longer waits for the ops in gone
Forget(s, gone) ==
  [owed EXCEPT ![s] = [k \in Keys |-> IF @[k] = "due" /\ k \in gone THEN "no" ELSE @[k]]]

\* push_op, first half: lock the connection and execute the INSERT.  An
\* execute error returns Err through `?` and drops the guard.
PushOpExecute(t) ==
  /\ call[t].state = "called"
  /\ MutexFree
  /\ \E ok \in BOOLEAN :
       IF ok
       THEN /\ InsertOrIgnore(call[t].workspace_id, call[t].op)
            /\ lock' = t
            /\ left' = left
            /\ call' = [call EXCEPT ![t].state = "inserted",
                          ![t].fresh = ~Conflicts(call[t].workspace_id, call[t].op)]
            /\ owed' = IF Conflicts(call[t].workspace_id, call[t].op)
                       THEN owed ELSE Owe(t)
       ELSE /\ left.faults > 0
            /\ left' = [left EXCEPT !.faults = @ - 1]
            /\ UNCHANGED <<ops, sqlite_sequence, last_insert_rowid, lock, owed>>
            /\ call' = [call EXCEPT ![t].state = "returned", ![t].ok = FALSE]
  /\ UNCHANGED <<snapshots, http, sess, hub, first_ret>>

\* push_op, second half: Ok(conn.last_insert_rowid()), guard dropped.
PushOpReturn(t) ==
  /\ call[t].state = "inserted"
  /\ call' = [call EXCEPT ![t].state = "returned", ![t].ok = TRUE,
                          ![t].val = last_insert_rowid]
  /\ lock' = NoTask
  /\ first_ret' = IF first_ret[Key(call[t])] = 0
                   THEN [first_ret EXCEPT ![Key(call[t])] = last_insert_rowid]
                   ELSE first_ret
  /\ UNCHANGED <<store, http, sess, hub, left, owed>>

\* ---- sorting rows by id (ORDER BY id ASC)
RECURSIVE SortById(_)
SortById(rows) ==
  IF rows = {} THEN <<>>
  ELSE LET first == CHOOSE r \in rows : \A s \in rows : r.id <= s.id
       IN <<first>> \o SortById(rows \ {first})

RowOp(r) ==
  [db_id |-> Some(r.id), id |-> r.op_id, op_type |-> r.op_type,
   payload |-> r.payload, timestamp |-> r.timestamp, client_id |-> r.client_id]

MapRowOp(s) == [k \in 1..Len(s) |-> RowOp(s[k])]

\* an absent cursor read as 1
UnwrapOr1(after_id) == IF after_id = Nothing THEN 1 ELSE after_id[1]

\* after_id.unwrap_or(0)
UnwrapOr0(after_id) == IF after_id = Nothing THEN 0 ELSE after_id[1]

\* WHERE workspace_id = ?1 AND id >= ?2
SelectedFromCursor(workspace_id, after) ==
  {r \in ops : r.workspace_id = workspace_id /\ r.id >= after}

\* WHERE id > ?2
SelectedAnyWorkspace(workspace_id, after) ==
  {r \in ops : r.id > after}

\* WHERE workspace_id = ?1 AND id > ?2
Selected(workspace_id, after) ==
  {r \in ops : r.workspace_id = workspace_id /\ r.id > after}

\* Database::get_ops
GetOps(workspace_id, after_id) ==
  MapRowOp(SortById(Selected(workspace_id, UnwrapOr0(after_id))))

\* a get_snapshot that answers an empty snapshot for a workspace without one
GetSnapshotOrDefault(workspace_id) ==
  LET found == {r \in snapshots : r.workspace_id = workspace_id} IN
  IF found = {}
  THEN Some([workspace_id |-> workspace_id, data |-> "",
             last_op_id |-> Nothing, updated_at |-> ""])
  ELSE LET r == CHOOSE x \in found : TRUE IN
       Some([workspace_id |-> workspace_id, data |-> r.data,
             last_op_id |-> r.last_op_id, updated_at |-> r.updated_at])

\* Database::get_snapshot: Some(row) or None
GetSnapshot(workspace_id) ==
  LET found == {r \in snapshots : r.workspace_id = workspace_id} IN
  IF found = {} THEN Nothing
  ELSE LET r == CHOOSE x \in found : TRUE IN
       Some([workspace_id |-> workspace_id, data |-> r.data,
             last_op_id |-> r.last_op_id, updated_at |-> r.updated_at])

\* INSERT OR IGNORE on the primary key workspace_id
SaveSnapshotOrIgnore(snapshot) ==
  LET rowid == Max({0} \cup {r.rowid : r \in snapshots}) + 1 IN
  IF \E r \in snapshots : r.workspace_id = snapshot.workspace_id
  THEN UNCHANGED <<snapshots, last_insert_rowid>>
  ELSE /\ snapshots' = snapshots \cup
            {[rowid |-> rowid, workspace_id |-> snapshot.workspace_id,
              data |-> snapshot.data, last_op_id |-> snapshot.last_op_id,
              updated_at |-> snapshot.updated_at]}
       /\ last_insert_rowid' = rowid

\* Database::save_snapshot: INSERT OR REPLACE on the primary key workspace_id.
\* The replacing row draws a new rowid, which last_insert_rowid reports.
SaveSnapshot(snapshot) ==
  LET rowid == Max({0} \cup {r.rowid : r \in snapshots}) + 1 IN
  /\ snapshots' =
       {r \in snapshots : r.workspace_id # snapshot.workspace_id} \cup
       {[rowid |-> rowid, workspace_id |-> snapshot.workspace_id,
         data |-> snapshot.data, last_op_id |-> snapshot.last_op_id,
         updated_at |-> snapshot.updated_at]}
  /\ last_insert_rowid' = rowid

\* -------------------------------------------------------------------- hub
\* a send that waits while a running forwarding task has a full backlog
HubSendWhenRoom(msg) ==
  /\ \A s \in Sessions :
       sess[s].fwd \in {"recv", "send"}
         => Len(hub) - (sess[s].next - 1) < Capacity
  /\ hub' = Append(hub, msg)

\* tx.send(json): always completes; the ring keeps the last Capacity messages.
HubSend(msg) == hub' = Append(hub, msg)

\* an event that carries the op as the store holds it
BroadcastStored(workspace_id, op) ==
  WsMessage("op", workspace_id,
    <<IF Conflicts(workspace_id, op)
      THEN RowOp(CHOOSE r \in ops :
                   r.workspace_id = workspace_id /\ r.op_id = op.id)
      ELSE op>>)

\* WsMessage { msg_type: "op", workspace_id, ops: Some(vec![op.clone()]),
\* error: None }
Broadcast(workspace_id, op) == WsMessage("op", workspace_id, <<op>>)

\* the messages the channel holds: the last Capacity ones
Ring == SubSeq(hub, Max({1, Len(hub) - Capacity + 1}), Len(hub))

\* a receive handle that never sees the newest message
PendingButLast(next) == next < Len(hub)

\* a channel on which every receive handle lags as soon as one is behind
LaggedWhenAnyLags(next) ==
  \E s \in Sessions :
    sess[s].conn = "open" /\ Len(hub) - (sess[s].next - 1) > Capacity

\* rx.recv() of a receive handle at position next: Lagged when the ring has
\* overwritten the message at next, the message when there is one.
Lagged(next) == Len(hub) - (next - 1) > Capacity
Pending(next) == next <= Len(hub)

\* ---------------------------------------------------------- HTTP handlers
NoResp == [status |-> 0, body |-> None]

IdleHttp ==
  [pc |-> "idle", kind |-> None, workspace_id |-> None, ops |-> <<>>, i |-> 0,
   accepted |-> 0, fresh |-> 0, firsts |-> {}, errs |-> {}, had |-> {},
   after |-> Nothing,
   body |-> Nothing, snapshot |-> Nothing, resp |-> NoResp]

HttpInput(n) ==
  /\ left.http > 0
  /\ left.ops >= n
  /\ left' = [left EXCEPT !.http = @ - 1, !.ops = @ - n]

\* a request whose store call fails when failed is TRUE
HttpStoreInput(failed) ==
  /\ left.http > 0
  /\ failed => left.errors > 0
  /\ left' = [left EXCEPT !.http = @ - 1,
                          !.errors = IF failed THEN @ - 1 ELSE @]

\* e.to_string()
StoreError == "error"

\* a handler that answers a store error like a success
StoreFailureAsOk(e) == [status |-> 200, body |-> e]

\* Err(e) => Err((StatusCode::INTERNAL_SERVER_ERROR, e.to_string()))
StoreFailure(e) == [status |-> 500, body |-> e]

WsInput(n) ==
  /\ left.ws > 0
  /\ left.ops >= n
  /\ left' = [left EXCEPT !.ws = @ - 1, !.ops = @ - n]

\* a request or push frame with a batch
HttpBatch(workspace_id, body) ==
  /\ left.http > 0
  /\ left.ops >= Len(body)
  /\ left.bad >= Irregular(workspace_id, body)
  /\ left' = [left EXCEPT !.http = @ - 1, !.ops = @ - Len(body),
                          !.bad = @ - Irregular(workspace_id, body)]

WsBatch(workspace_id, body) ==
  /\ left.ws > 0
  /\ left.ops >= Len(body)
  /\ left.bad >= Irregular(workspace_id, body)
  /\ left' = [left EXCEPT !.ws = @ - 1, !.ops = @ - Len(body),
                          !.bad = @ - Irregular(workspace_id, body)]

\* the op ids that workspace_id holds
StoredIds(workspace_id) == {r.op_id : r \in {x \in ops : x.workspace_id = workspace_id}}

\* a loop over the batch that stops at the first Err
LoopEndsOnErr(i, list, hit) == i = Len(list) \/ ~hit

\* `for op in ..`: the loop ends after the turn of the last op, whatever the
\* results of push_op were.
LoopEnds(i, list, hit) == i = Len(list)

\* POST /api/ops arrives.  A body that does not deserialize is answered by the
\* Json extractor (422) and push_ops does not run; otherwise accepted = 0 and
\* the loop enters its first push_op.
HttpPushOps(t) ==
  /\ http[t].pc = "idle"
  /\ \E w \in AnyWorkspaces, batch \in Bodies(t) :
       /\ HttpBatch(w, batch)
       /\ IF ~FromJson(batch)
          THEN /\ http' = [http EXCEPT ![t] =
                    [IdleHttp EXCEPT !.pc = "done", !.kind = "push_ops",
                       !.workspace_id = w, !.ops = batch,
                       !.had = StoredIds(w),
                       !.resp = [status |-> 422, body |-> None]]]
               /\ call' = call
          ELSE IF batch = <<>>
          THEN /\ http' = [http EXCEPT ![t] =
                    [IdleHttp EXCEPT !.pc = "done", !.kind = "push_ops",
                       !.workspace_id = w,
                       !.resp = [status |-> 200, body |-> 0]]]
               /\ call' = call
          ELSE /\ http' = [http EXCEPT ![t] =
                    [IdleHttp EXCEPT !.pc = "loop", !.kind = "push_ops",
                       !.workspace_id = w, !.ops = batch, !.i = 1,
                       !.had = StoredIds(w)]]
               /\ call' = [call EXCEPT ![t] = StartCall(w, batch[1])]
  /\ UNCHANGED <<store, lock, sess, hub, owed, first_ret>>

\* One turn of `for op in &req.ops`: match on the result of push_op, count and
\* publish on Ok, warn on Err, then enter the next push_op or leave the loop
\* with Ok(Json(PushOpsResponse { accepted })).
HttpPushOpsStep(t) ==
  /\ http[t].pc = "loop"
  /\ call[t].state = "returned"
  /\ LET h == http[t]
         op == h.ops[h.i]
         hit == call[t].ok
         last == LoopEnds(h.i, h.ops, hit)
         accepted == IF hit THEN h.accepted + 1 ELSE h.accepted
     IN
     /\ IF hit
        THEN HubSend(Broadcast(h.workspace_id, op))
        ELSE hub' = hub
     /\ http' = [http EXCEPT
          ![t].accepted = accepted,
          ![t].fresh = IF call[t].ok /\ call[t].fresh THEN @ + 1 ELSE @,
          ![t].firsts = IF call[t].ok /\ call[t].fresh THEN @ \cup {h.i} ELSE @,
          ![t].errs = IF hit THEN @ ELSE @ \cup {h.i},
          ![t].i = IF last THEN @ ELSE @ + 1,
          ![t].pc = IF last THEN "done" ELSE "loop",
          ![t].resp = IF last THEN [status |-> 200, body |-> accepted] ELSE @]
     /\ call' = [call EXCEPT ![t] =
          IF last THEN IdleCall ELSE StartCall(h.workspace_id, h.ops[h.i + 1])]
  /\ UNCHANGED <<store, lock, sess, left, owed, first_ret>>

MaxCursor == 3
Cursors == {Nothing} \cup {Some(n) : n \in 0..MaxCursor}

\* GET /api/ops/{workspace_id}?after=
HttpGetOps(t) ==
  /\ http[t].pc = "idle"
  /\ MutexFree
  /\ \E w \in Workspaces, after \in Cursors, failed \in BOOLEAN :
       /\ HttpStoreInput(failed)
       /\ http' = [http EXCEPT ![t] =
            [IdleHttp EXCEPT !.pc = "done", !.kind = "get_ops",
               !.workspace_id = w, !.after = after,
               !.resp = IF failed
                        THEN StoreFailure(StoreError)
                        ELSE [status |-> 200, body |-> GetOps(w, after)]]]
  /\ UNCHANGED <<store, lock, call, sess, hub, owed, first_ret>>

\* a get_snapshot that stores an empty snapshot for a workspace without one
HttpGetSnapshotCreating(t) ==
  /\ http[t].pc = "idle"
  /\ MutexFree
  /\ HttpStoreInput(FALSE)
  /\ \E w \in Workspaces :
       /\ http' = [http EXCEPT ![t] =
            [IdleHttp EXCEPT !.pc = "done", !.kind = "get_snapshot",
               !.workspace_id = w,
               !.resp = IF GetSnapshot(w) = Nothing
                        THEN [status |-> 404, body |-> None]
                        ELSE [status |-> 200, body |-> GetSnapshot(w)[1]]]]
       /\ IF GetSnapshot(w) = Nothing
          THEN SaveSnapshot(ClientSnapshot(w, "X"))
          ELSE UNCHANGED <<snapshots, last_insert_rowid>>
  /\ UNCHANGED <<ops, sqlite_sequence, lock, call, sess, hub, owed, first_ret>>

\* GET /api/snapshot/{workspace_id}
HttpGetSnapshot(t) ==
  /\ http[t].pc = "idle"
  /\ MutexFree
  /\ \E w \in Workspaces, failed \in BOOLEAN :
       /\ HttpStoreInput(failed)
       /\ http' = [http EXCEPT ![t] =
            [IdleHttp EXCEPT !.pc = "done", !.kind = "get_snapshot",
               !.workspace_id = w,
               !.resp = IF failed THEN StoreFailure(StoreError)
                        ELSE IF GetSnapshot(w) = Nothing
                        THEN [status |-> 404, body |-> None]
                        ELSE [status |-> 200, body |-> GetSnapshot(w)[1]]]]
  /\ UNCHANGED <<store, lock, call, sess, hub, owed, first_ret>>

\* a handler that saves the body as it came
OverrideNot(body, workspace_id) == body

\* snapshot.workspace_id = workspace_id
Override(body, workspace_id) == [body EXCEPT !.workspace_id = workspace_id]

\* POST /api/snapshot/{workspace_id}: the path's workspace_id replaces the body's
HttpSaveSnapshot(t) ==
  /\ http[t].pc = "idle"
  /\ MutexFree
  /\ \E w \in Workspaces, body_w \in Workspaces, data \in Datas,
        failed \in BOOLEAN :
       LET body == ClientSnapshot(body_w, data)
           snapshot == Override(body, w)
       IN
       /\ HttpStoreInput(failed)
       /\ IF failed THEN UNCHANGED <<snapshots, last_insert_rowid>>
                    ELSE SaveSnapshot(snapshot)
       /\ http' = [http EXCEPT ![t] =
            [IdleHttp EXCEPT !.pc = "done", !.kind = "save_snapshot",
               !.workspace_id = w, !.body = Some(body),
               !.snapshot = Some(snapshot),
               !.resp = IF failed THEN StoreFailure(StoreError)
                        ELSE [status |-> 200, body |-> None]]]
  /\ UNCHANGED <<ops, sqlite_sequence, lock, call, sess, hub, owed,
                 first_ret>>

\* The response is written and the request task ends.
HttpRespond(t) ==
  /\ http[t].pc = "done"
  /\ http' = [http EXCEPT ![t] = IdleHttp]
  /\ UNCHANGED <<store, lock, call, sess, hub, left, owed, first_ret>>

\* ------------------------------------------------------ WebSocket sessions
NoMsg == WsMessage(None, None, <<>>)

NoSession ==
  [conn |-> "absent", subs |-> {}, ever |-> {}, same |-> {}, junk |-> Nothing,
   read |-> "idle", workspace_id |-> None,
   ops |-> <<>>, i |-> 0, firsts |-> {}, errs |-> {}, next |-> 0,
   fwd |-> "none",
   msg |-> NoMsg,
   out |-> <<>>, cut |-> [w \in Workspaces |-> -1],
   since |-> [w \in Workspaces |-> -1]]

\* Connections are named in the order they are accepted.
Earlier(s) == IF s = "s2" THEN {"s1"} ELSE {}

\* handle_socket up to its read loop: a receive handle at the hub's tail, an
\* empty subscription set, the forwarding task spawned.
Connect(s) ==
  /\ sess[s].conn = "absent"
  /\ \A e \in Earlier(s) : sess[e].conn # "absent"
  /\ left.conns > 0
  /\ left' = [left EXCEPT !.conns = @ - 1]
  /\ sess' = [sess EXCEPT ![s] =
       [NoSession EXCEPT !.conn = "open", !.next = Len(hub) + 1,
                         !.fwd = "recv"]]
  /\ UNCHANGED <<store, lock, call, http, hub, owed, first_ret>>

Reading(s) == sess[s].conn = "open" /\ sess[s].read = "idle"

\* an insert that takes out a value the set holds
InsertToggle(set, w) == IF w \in set THEN set \ {w} ELSE set \cup {w}

\* HashSet::insert, HashSet::remove
Insert(set, w) == set \cup {w}
Remove(set, w) == set \ {w}

\* frame {msg_type: "subscribe", workspace_id}.  same records the kinds of
\* frame that named a workspace the set already held, or did not hold; cut[w]
\* is the number of frames sent to the client when the unsubscribe(w) that
\* took w out of the set was processed, and -1 when a subscribe(w) came after
\* it or there was none; since[w] is the number of events published when the
\* subscribe(w) that last put w into the set was processed, and -1 when there
\* was none.
Subscribe(s) ==
  /\ Reading(s)
  /\ WsInput(0)
  /\ \E w \in Workspaces :
       sess' = [sess EXCEPT ![s].subs = Insert(@, w), ![s].ever = @ \cup {w},
                  ![s].same = IF w \in sess[s].subs
                              THEN @ \cup {"subscribe"} ELSE @,
                  ![s].cut[w] = -1,
                  ![s].since[w] = IF w \in sess[s].subs THEN @ ELSE Len(hub)]
  /\ UNCHANGED <<store, lock, call, http, hub, owed, first_ret>>

\* frame {msg_type: "unsubscribe", workspace_id}
Unsubscribe(s) ==
  /\ Reading(s)
  /\ WsInput(0)
  /\ \E w \in Workspaces :
       /\ sess' = [sess EXCEPT ![s].subs = Remove(@, w),
                     ![s].same = IF w \in sess[s].subs
                                 THEN @ ELSE @ \cup {"unsubscribe"},
                     ![s].cut[w] = IF w \in sess[s].subs
                                   THEN Len(sess[s].out) ELSE @]
       /\ owed' = Forget(s, {k \in Keys : k[1] = w})
  /\ UNCHANGED <<store, lock, call, http, hub, first_ret>>

\* frame {msg_type: "push", workspace_id, ops}: the loop enters its first push_op
WsPush(s) ==
  /\ Reading(s)
  /\ \E w \in AnyWorkspaces, batch \in Batches(s) :
       /\ WsBatch(w, batch)
       /\ IF batch = <<>>
          THEN /\ sess' = sess
               /\ call' = call
          ELSE /\ sess' = [sess EXCEPT ![s].read = "push",
                             ![s].workspace_id = w, ![s].ops = batch, ![s].i = 1,
                             ![s].firsts = {}, ![s].errs = {}]
               /\ call' = [call EXCEPT ![s] = StartCall(w, batch[1])]
  /\ UNCHANGED <<store, lock, http, hub, owed, first_ret>>

\* One turn of `for op in ops` of a push frame: the result of push_op is
\* dropped (`let _ =`) and the op is published whatever it was.  The batch of
\* the last push frame stays on record (workspace_id, ops, i, firsts, errs).
WsPushStep(s) ==
  /\ sess[s].read = "push"
  /\ call[s].state = "returned"
  /\ LET c == sess[s]
         last == LoopEnds(c.i, c.ops, call[s].ok)
     IN
     /\ HubSend(Broadcast(c.workspace_id, c.ops[c.i]))
     /\ sess' = [sess EXCEPT
          ![s].i = IF last THEN @ ELSE @ + 1,
          ![s].firsts = IF call[s].ok /\ call[s].fresh THEN @ \cup {c.i} ELSE @,
          ![s].errs = IF call[s].ok THEN @ ELSE @ \cup {c.i},
          ![s].read = IF last THEN "idle" ELSE "push"]
     /\ call' = [call EXCEPT ![s] =
          IF last THEN IdleCall ELSE StartCall(c.workspace_id, c.ops[c.i + 1])]
  /\ UNCHANGED <<store, lock, http, left, owed, first_ret>>

\* a read loop that ends at a frame it cannot parse
FrameFatal(s) ==
  /\ Reading(s)
  /\ WsInput(0)
  /\ sess' = [sess EXCEPT ![s].junk = Some(sess[s].subs), ![s].conn = "closed",
                ![s].fwd = IF @ \in {"recv", "send"} THEN "aborted" ELSE @,
                ![s].msg = NoMsg]
  /\ UNCHANGED <<store, lock, call, http, hub, owed, first_ret>>

\* a read loop that empties the subscription set at a frame it cannot use
FrameIgnoredClearing(s) ==
  /\ Reading(s)
  /\ WsInput(0)
  /\ sess' = [sess EXCEPT ![s].junk = Some(sess[s].subs), ![s].subs = {}]
  /\ UNCHANGED <<store, lock, call, http, hub, owed, first_ret>>

\* A frame the read loop takes and drops: not text, not a WsMessage, another
\* msg_type, or a subscribe/unsubscribe/push without its fields.  Nothing is
\* done for it; junk records the subscription set at the last such frame.
FrameIgnored(s) ==
  /\ Reading(s)
  /\ WsInput(0)
  /\ sess' = [sess EXCEPT ![s].junk = Some(sess[s].subs)]
  /\ UNCHANGED <<store, lock, call, http, hub, owed, first_ret>>

\* the end of a read loop that empties every session's subscription set
DisconnectAll(s) ==
  /\ Reading(s)
  /\ WsInput(0)
  /\ sess' = [o \in Sessions |->
       IF o = s
       THEN [sess[s] EXCEPT !.conn = "closed",
               !.fwd = IF @ \in {"recv", "send"} THEN "aborted" ELSE @,
               !.msg = NoMsg]
       ELSE [sess[o] EXCEPT !.subs = {}]]
  /\ owed' = Forget(s, Keys)
  /\ UNCHANGED <<store, lock, call, http, hub, first_ret>>

\* the end of the read loop without send_task.abort()
DisconnectWithoutAbort(s) ==
  /\ Reading(s)
  /\ WsInput(0)
  /\ sess' = [sess EXCEPT ![s].conn = "closed"]
  /\ owed' = Forget(s, Keys)
  /\ UNCHANGED <<store, lock, call, http, hub, first_ret>>

\* receiver.next() yields None or Err: the read loop ends, send_task.abort().
Disconnect(s) ==
  /\ Reading(s)
  /\ WsInput(0)
  /\ sess' = [sess EXCEPT ![s].conn = "closed",
                ![s].fwd = IF @ \in {"recv", "send"} THEN "aborted" ELSE @,
                ![s].msg = NoMsg]
  /\ owed' = Forget(s, Keys)
  /\ UNCHANGED <<store, lock, call, http, hub, first_ret>>

\* a forwarding task that sends every event
ShouldSendAlways(s, msg) == TRUE

\* should_send: the event's workspace_id is in subscribed_workspaces
\* a filter on the workspaces the session has ever subscribed to
ShouldSendEver(s, msg) == msg.workspace_id \in sess[s].ever

\* a filter on the ops that were stored while the session was subscribed
ShouldSendIfOwed(s, msg) == 
  owed[s][<<msg.workspace_id, msg.ops[1].id>>] = "due"

\* a filter that leaves out the session that submitted the op
ShouldSendToOthers(s, msg) ==
  msg.workspace_id \in sess[s].subs /\ msg.ops[1].client_id # s

ShouldSend(s, msg) == msg.workspace_id \in sess[s].subs

\* The forwarding task's `while let Ok(msg) = rx.recv().await`: a Lagged error
\* is not Ok and ends the loop; a message is parsed and checked against the
\* subscription set.
FwdRecv(s) ==
  /\ sess[s].fwd = "recv"
  /\ IF Lagged(sess[s].next)
     THEN sess' = [sess EXCEPT ![s].fwd = "lagged"]
     ELSE /\ Pending(sess[s].next)
          /\ LET msg == hub[sess[s].next]
                 should_send == ShouldSend(s, msg)
             IN sess' = [sess EXCEPT ![s].next = @ + 1,
                           ![s].fwd = IF should_send THEN "send" ELSE "recv",
                           ![s].msg = IF should_send THEN msg ELSE NoMsg]
  /\ UNCHANGED <<store, lock, call, http, hub, left, owed, first_ret>>

\* sender.send(Message::Text(msg)): an error breaks the forwarding loop.
FwdSend(s) ==
  /\ sess[s].fwd = "send"
  /\ \E sent \in BOOLEAN :
       IF sent
       THEN /\ sess' = [sess EXCEPT ![s].fwd = "recv", ![s].msg = NoMsg,
                                    ![s].out = Append(@, sess[s].msg)]
            /\ owed' = [owed EXCEPT
                 ![s][<<sess[s].msg.workspace_id, sess[s].msg.ops[1].id>>] =
                    IF @ = "due" THEN "sent" ELSE @]
       ELSE /\ sess' = [sess EXCEPT ![s].fwd = "failed", ![s].msg = NoMsg]
            /\ owed' = owed
  /\ UNCHANGED <<store, lock, call, http, hub, left, first_ret>>

\* ------------------------------------------------------------------ system
Init ==
  /\ ops = {}
  /\ sqlite_sequence = 0
  /\ snapshots = {}
  /\ last_insert_rowid = 0
  /\ lock = NoTask
  /\ call = [t \in Tasks |-> IdleCall]
  /\ http = [t \in HttpTasks |-> IdleHttp]
  /\ sess = [s \in Sessions |-> NoSession]
  /\ hub = <<>>
  /\ left = [http |-> MaxRequests, ws |-> MaxFrames, faults |-> MaxFaults,
             ops |-> MaxOps, conns |-> MaxConnections, bad |-> 0,
             errors |-> 0]
  /\ owed = [s \in Sessions |-> [k \in Keys |-> "no"]]
  /\ first_ret = [k \in Keys |-> 0]

Next ==
  \/ \E t \in Tasks : PushOpExecute(t)
  \/ \E t \in Tasks : PushOpReturn(t)
  \/ \E t \in HttpTasks : HttpPushOps(t)
  \/ \E t \in HttpTasks : HttpPushOpsStep(t)
  \/ \E t \in HttpTasks : HttpGetOps(t)
  \/ \E t \in HttpTasks : HttpGetSnapshot(t)
  \/ \E t \in HttpTasks : HttpSaveSnapshot(t)
  \/ \E t \in HttpTasks : HttpRespond(t)
  \/ \E s \in Sessions : Connect(s)
  \/ \E s \in Sessions : Subscribe(s)
  \/ \E s \in Sessions : Unsubscribe(s)
  \/ \E s \in Sessions : WsPush(s)
  \/ \E s \in Sessions : WsPushStep(s)
  \/ \E s \in Sessions : FrameIgnored(s)
  \/ \E s \in Sessions : Disconnect(s)
  \/ \E s \in Sessions : FwdRecv(s)
  \/ \E s \in Sessions : FwdSend(s)

Spec == Init /\ [][Next]_vars

\* The scheduler runs every ready task and the mutex is handed to a waiter:
\* each internal step of a handler or of a forwarding task is taken once it
\* stays enabled.  Client inputs are never forced.
Fairness ==
  /\ \A t \in Tasks : WF_vars(PushOpExecute(t)) /\ WF_vars(PushOpReturn(t))
  /\ \A t \in HttpTasks : WF_vars(HttpPushOpsStep(t)) /\ WF_vars(HttpRespond(t))
  /\ \A s \in Sessions :
       WF_vars(WsPushStep(s)) /\ WF_vars(FwdRecv(s)) /\ WF_vars(FwdSend(s))

FairSpec == Spec /\ Fairness

\* The store behind its HTTP interface alone: no WebSocket client connects,
\* and the run takes more requests.
StoreInit ==
  /\ ops = {}
  /\ sqlite_sequence = 0
  /\ snapshots = {}
  /\ last_insert_rowid = 0
  /\ lock = NoTask
  /\ call = [t \in Tasks |-> IdleCall]
  /\ http = [t \in HttpTasks |-> IdleHttp]
  /\ sess = [s \in Sessions |-> NoSession]
  /\ hub = <<>>
  /\ left = [http |-> MaxStoreRequests, ws |-> 0, faults |-> MaxFaults,
             ops |-> MaxStoreOps, conns |-> 0, bad |-> 0,
             errors |-> MaxStoreErrors]
  /\ owed = [s \in Sessions |-> [k \in Keys |-> "no"]]
  /\ first_ret = [k \in Keys |-> 0]

StoreNext ==
  \/ \E t \in HttpTasks : PushOpExecute(t)
  \/ \E t \in HttpTasks : PushOpReturn(t)
  \/ \E t \in HttpTasks : HttpPushOps(t)
  \/ \E t \in HttpTasks : HttpPushOpsStep(t)
  \/ \E t \in HttpTasks : HttpGetOps(t)
  \/ \E t \in HttpTasks : HttpGetSnapshot(t)
  \/ \E t \in HttpTasks : HttpSaveSnapshot(t)
  \/ \E t \in HttpTasks : HttpRespond(t)

StoreSpec == StoreInit /\ [][StoreNext]_vars

\* The whole server with two WebSocket clients.
PairInit ==
  /\ ops = {}
  /\ sqlite_sequence = 0
  /\ snapshots = {}
  /\ last_insert_rowid = 0
  /\ lock = NoTask
  /\ call = [t \in Tasks |-> IdleCall]
  /\ http = [t \in HttpTasks |-> IdleHttp]
  /\ sess = [s \in Sessions |-> NoSession]
  /\ hub = <<>>
  /\ left = [http |-> MaxPairRequests, ws |-> MaxPairFrames, faults |-> 0,
             ops |-> MaxPairOps, conns |-> MaxPairConnections, bad |-> 0,
             errors |-> 0]
  /\ owed = [s \in Sessions |-> [k \in Keys |-> "no"]]
  /\ first_ret = [k \in Keys |-> 0]

PairSpec == PairInit /\ [][Next]_vars

\* Two WebSocket subscribers and one HTTP submitter, with the scheduler's
\* fairness.
LagInit ==
  /\ ops = {}
  /\ sqlite_sequence = 0
  /\ snapshots = {}
  /\ last_insert_rowid = 0
  /\ lock = NoTask
  /\ call = [t \in Tasks |-> IdleCall]
  /\ http = [t \in HttpTasks |-> IdleHttp]
  /\ sess = [s \in Sessions |-> NoSession]
  /\ hub = <<>>
  /\ left = [http |-> MaxPairRequests, ws |-> MaxPairFrames, faults |-> 0,
             ops |-> MaxLagOps, conns |-> MaxPairConnections, bad |-> 0,
             errors |-> 0]
  /\ owed = [s \in Sessions |-> [k \in Keys |-> "no"]]
  /\ first_ret = [k \in Keys |-> 0]

LagNext ==
  \/ \E t \in HttpTasks : PushOpExecute(t)
  \/ \E t \in HttpTasks : PushOpReturn(t)
  \/ \E t \in HttpTasks : HttpPushOps(t)
  \/ \E t \in HttpTasks : HttpPushOpsStep(t)
  \/ \E t \in HttpTasks : HttpRespond(t)
  \/ \E s \in Sessions : Connect(s)
  \/ \E s \in Sessions : Subscribe(s)
  \/ \E s \in Sessions : FwdRecv(s)
  \/ \E s \in Sessions : FwdSend(s)

LagSpec == LagInit /\ [][LagNext]_vars /\ Fairness

\* The HTTP interface with requests that carry an empty or malformed part.
ValidationInit ==
  /\ ops = {}
  /\ sqlite_sequence = 0
  /\ snapshots = {}
  /\ last_insert_rowid = 0
  /\ lock = NoTask
  /\ call = [t \in Tasks |-> IdleCall]
  /\ http = [t \in HttpTasks |-> IdleHttp]
  /\ sess = [s \in Sessions |-> NoSession]
  /\ hub = <<>>
  /\ left = [http |-> MaxValidationRequests, ws |-> 0, faults |-> 0,
             ops |-> MaxBatch, conns |-> 0, bad |-> MaxIrregular,
             errors |-> 0]
  /\ owed = [s \in Sessions |-> [k \in Keys |-> "no"]]
  /\ first_ret = [k \in Keys |-> 0]

ValidationSpec == ValidationInit /\ [][StoreNext]_vars

\* ------------------------------------------------------------------ claims
Rows(workspace_id, id) ==
  {r \in ops : r.workspace_id = workspace_id /\ r.op_id = id}

\* positions of op id in a list of ops
Entries(list, id) == {i \in 1..Len(list) : list[i].id = id}

Published(k) ==
  {i \in 1..Len(hub) : hub[i].workspace_id = k[1] /\ hub[i].ops[1].id = k[2]}

\* C1: every Ok(seq) that push_op hands back for (W, O.id) is the sequence
\* its first call for (W, O.id) handed back.
C1_SameSequenceAgain ==
  \A t \in Tasks :
    (call[t].state = "returned" /\ call[t].ok)
      => call[t].val = first_ret[Key(call[t])]

\* C2: the ops table holds at most one row per (workspace_id, op id), and once
\* a submission of (W, id) has returned Ok, get_ops(W, none) holds exactly one
\* entry with that id.
C2_OneRowPerOp ==
  \A k \in Keys :
    /\ Cardinality(Rows(k[1], k[2])) <= 1
    /\ Cardinality(Entries(GetOps(k[1], Nothing), k[2])) <= 1
    /\ k \in completed => Cardinality(Entries(GetOps(k[1], Nothing), k[2])) = 1

\* a re-submission of a stored op has gone through push_op and returned Ok
C2_Resubmitted ==
  \E t \in Tasks : call[t].state = "returned" /\ call[t].ok /\ ~call[t].fresh

\* C3: the accepted count of a push_ops response is the number of ops of the
\* batch that were not stored before the call.
C3_AcceptedCountsNew ==
  \A t \in HttpTasks :
    (http[t].pc = "done" /\ http[t].kind = "push_ops")
      => http[t].resp.body = http[t].fresh

\* C4: at most one hub event is published per (workspace_id, op id).
C4_PublishedOnce ==
  \A k \in Keys : Cardinality(Published(k)) <= 1

\* C5: get_ops(W, c) is strictly ascending in sequence and holds no op whose
\* sequence is at most c.
C5_AscendingAfterCursor ==
  \A w \in Workspaces, c \in Cursors :
    LET list == GetOps(w, c) IN
    /\ \A i \in 1..Len(list) : \A j \in 1..Len(list) :
         i < j => list[i].db_id[1] < list[j].db_id[1]
    /\ c # Nothing => \A i \in 1..Len(list) : list[i].db_id[1] > c[1]

\* a get_ops response with a positive cursor and two ops
C5_TwoOpsAfterCursor ==
  \E t \in HttpTasks :
    /\ http[t].pc = "done" /\ http[t].kind = "get_ops"
    /\ http[t].after # Nothing /\ http[t].after # Some(0)
    /\ http[t].resp.status = 200
    /\ Len(http[t].resp.body) = 2

\* C6: get_ops(W, c) leaves out no stored op of W whose sequence is above c,
\* holds every stored op of W when the cursor is absent, and is the empty list
\* for a workspace without ops.
C6_NothingLeftOut ==
  \A w \in Workspaces :
    /\ \A id \in OpIds : \A r \in Rows(w, id) :
         /\ Entries(GetOps(w, Nothing), id) # {}
         /\ \A n \in 0..MaxCursor :
              r.id > n => \E i \in Entries(GetOps(w, Some(n)), id) :
                            GetOps(w, Some(n))[i].db_id = Some(r.id)
    /\ (\A id \in OpIds : Rows(w, id) = {})
         => \A c \in Cursors : GetOps(w, c) = <<>>

\* a get_ops response whose cursor cuts off a stored op and lets another through
C6_PartialResponse ==
  \E t \in HttpTasks :
    /\ http[t].pc = "done" /\ http[t].kind = "get_ops"
    /\ http[t].after # Nothing
    /\ http[t].resp.status = 200
    /\ Len(http[t].resp.body) >= 1
    /\ \E r \in ops : /\ r.workspace_id = http[t].workspace_id
                      /\ r.id <= http[t].after[1]

\* C7: no op appended to workspace A, named by the sequence its append
\* returned, is in get_ops(B, c) of another workspace B, also when A and B
\* hold the same op id.
C7_Isolation ==
  \A b \in Workspaces, c \in Cursors :
    LET list == GetOps(b, c) IN
    \A i \in 1..Len(list) : \A a \in Workspaces \ {b} :
      first_ret[<<a, list[i].id>>] # list[i].db_id[1]

\* one op id stored in both workspaces, and the other workspace read
C7_SameIdInBoth ==
  \E id \in OpIds :
    /\ first_ret[<<"A", id>>] # 0
    /\ first_ret[<<"B", id>>] # 0
    /\ \E t \in HttpTasks : http[t].pc = "done" /\ http[t].kind = "get_ops"

\* C8: an op accepted by a push_op call gets a sequence above that of every op
\* whose accepting call had returned when this call started.
C8_AcceptanceOrder ==
  \A t \in Tasks :
    (call[t].state \in {"inserted", "returned"} /\ call[t].fresh)
      => StoredSeq(Key(call[t])) > call[t].floor

\* an op accepted by a call that started after another accepting call returned
C8_AcceptedAfterAnother ==
  \E t \in Tasks :
    call[t].state = "returned" /\ call[t].fresh /\ call[t].floor >= 1

\* C9: the sequence push_op returned for a newly accepted op is the db_id that
\* get_ops reports for it, in every later state.
C9_ReturnedIsStored ==
  \A k \in completed :
    \E i \in Entries(GetOps(k[1], Nothing), k[2]) :
      GetOps(k[1], Nothing)[i].db_id = Some(first_ret[k])

\* push_op has returned for a new op while another task waits in its own call
C9_ConcurrentCalls ==
  \E t \in Tasks, u \in Tasks :
    /\ t # u
    /\ call[t].state = "returned" /\ call[t].fresh
    /\ call[u].state = "called"

C11_FanOutFiltering ==
  /\ [](\A s \in Sessions : \A i \in 1..Len(sess[s].out) :
          sess[s].out[i].workspace_id \in sess[s].ever)
  /\ [][\A s \in Sessions :
          /\ (sess'[s].fwd = "send" /\ sess[s].fwd # "send")
               => sess'[s].msg.workspace_id \in sess[s].subs
          /\ (sess'[s].out # sess[s].out)
               => /\ sess[s].fwd = "send"
                  /\ sess'[s].out = Append(sess[s].out, sess[s].msg)]_vars

\* a session that only ever subscribed to A has forwarded an op of A and then
\* examined and discarded an op of B
C11_OtherWorkspaceDiscarded ==
  \E s \in Sessions :
    /\ sess[s].ever = {"A"}
    /\ sess[s].fwd = "recv"
    /\ Len(sess[s].out) >= 1
    /\ sess[s].next >= 2
    /\ hub[sess[s].next - 1].workspace_id = "B"

\* C12: a Lagged report of the hub receive handle never ends a session's
\* forwarding task: the task goes on receiving.
C12_ContinuesAfterLag ==
  \A s \in Sessions : sess[s].fwd # "lagged"

\* (workspace, id) of an op frame
FrameKey(msg) == <<msg.workspace_id, msg.ops[1].id>>

\* a stored op that was published exactly once
PublishedOnceStored(k) ==
  Rows(k[1], k[2]) # {} /\ Cardinality(Published(k)) = 1

\* C13: the op frames of one workspace that a session has sent its client are
\* in the order of the ops' stored sequences (ops published once; frames lost
\* to lag are simply absent).
C13_ForwardedInStoreOrder ==
  \A s \in Sessions :
    \A i \in 1..Len(sess[s].out) : \A j \in 1..Len(sess[s].out) :
      ( /\ i < j
        /\ sess[s].out[i].workspace_id = sess[s].out[j].workspace_id
        /\ PublishedOnceStored(FrameKey(sess[s].out[i]))
        /\ PublishedOnceStored(FrameKey(sess[s].out[j])) )
      => StoredSeq(FrameKey(sess[s].out[i])) < StoredSeq(FrameKey(sess[s].out[j]))

\* C14: every op event on the hub, and so every op frame a client received, is
\* for an op that the ops table holds and get_ops of its workspace returns.
C14_PublishedIsStored ==
  \A i \in 1..Len(hub) :
    /\ Rows(hub[i].workspace_id, hub[i].ops[1].id) # {}
    /\ Entries(GetOps(hub[i].workspace_id, Nothing), hub[i].ops[1].id) # {}

\* C15: the snapshots table holds at most one row per workspace, a
\* save_snapshot for W that the store carried out makes get_snapshot(W) the snapshot just saved, and
\* nothing else changes what get_snapshot(W) returns: it is always the data,
\* last_op_id and updated_at of the most recent save for W.
C15_SnapshotUpsert ==
  /\ [](\A w \in Workspaces :
          Cardinality({r \in snapshots : r.workspace_id = w}) <= 1)
  /\ [][\A w \in Workspaces :
          LET saves == {t \in HttpTasks :
                          /\ http[t].pc = "idle" /\ http'[t].pc = "done"
                          /\ http'[t].kind = "save_snapshot"
                          /\ http'[t].resp.status = 200
                          /\ http'[t].workspace_id = w}
          IN IF saves # {}
             THEN \E t \in saves : GetSnapshot(w)' = http'[t].snapshot
             ELSE GetSnapshot(w)' = GetSnapshot(w)]_vars

\* get_snapshot has answered for a workspace whose snapshot replaced an
\* earlier one
C15_ReplacedThenRead ==
  \E t \in HttpTasks :
    /\ http[t].pc = "done" /\ http[t].kind = "get_snapshot"
    /\ http[t].resp.status = 200
    /\ Cardinality(snapshots) = 1
    /\ \E r \in snapshots :
         /\ r.workspace_id = http[t].workspace_id
         /\ r.rowid = 2
         /\ http[t].resp.body.data = r.data

\* C16: a finished batch has passed every one of its ops to push_op, every op
\* whose own push_op did not fail is stored, and the HTTP response is 200, also
\* when push_op failed for an op of the batch.
C16_BatchNotAborted ==
  /\ \A t \in HttpTasks :
       (http[t].pc = "done" /\ http[t].kind = "push_ops")
         => /\ http[t].resp.status = 200
            /\ http[t].i = Len(http[t].ops)
            /\ \A j \in 1..Len(http[t].ops) :
                 j \notin http[t].errs
                   => Rows(http[t].workspace_id, http[t].ops[j].id) # {}
  /\ \A s \in Sessions :
       (sess[s].read = "idle" /\ sess[s].conn # "absent")
         => /\ sess[s].i = Len(sess[s].ops)
            /\ \A j \in 1..Len(sess[s].ops) :
                 j \notin sess[s].errs
                   => Rows(sess[s].workspace_id, sess[s].ops[j].id) # {}

\* an HTTP batch whose first push_op failed and whose second op was stored
C16_StoredAfterFailure ==
  \E t \in HttpTasks :
    /\ http[t].pc = "done" /\ http[t].kind = "push_ops"
    /\ Len(http[t].ops) = 2
    /\ http[t].errs = {1}
    /\ http[t].fresh = 1
    /\ Rows(http[t].workspace_id, http[t].ops[2].id) # {}

\* an element of a posted batch that is an Op with a non-empty id
WellFormed(item) == IsOp(item) /\ item.id # ""

\* C17: a push_ops request for a batch of one malformed op and two valid ops
\* that the workspace did not hold is answered 200 with accepted: 2, get_ops
\* returns both valid ops afterwards, and the malformed op is not stored.
C17_PartialAcceptance ==
  \A t \in HttpTasks :
    LET h == http[t]
        bad == {j \in 1..Len(h.ops) : ~WellFormed(h.ops[j])}
        good == (1..Len(h.ops)) \ bad
    IN
    ( /\ h.pc = "done" /\ h.kind = "push_ops"
      /\ h.workspace_id # ""
      /\ Len(h.ops) = 3
      /\ Cardinality(bad) = 1
      /\ Cardinality({h.ops[j].id : j \in good}) = 2
      /\ {h.ops[j].id : j \in good} \cap h.had = {} )
    => /\ h.resp.status = 200
       /\ h.resp.body = 2
       /\ \A j \in good :
            Entries(GetOps(h.workspace_id, Nothing), h.ops[j].id) # {}
       /\ \A j \in bad : Rows(h.workspace_id, h.ops[j].id) = {}

\* C18: no row of the ops log and no hub event has an empty op id or an empty
\* workspace_id, and a push_ops response counts no op of a request whose
\* workspace_id is empty and no op whose id is empty.
C18_EmptyRejected ==
  /\ \A r \in ops : r.op_id # "" /\ r.workspace_id # ""
  /\ \A i \in 1..Len(hub) : hub[i].workspace_id # "" /\ hub[i].ops[1].id # ""
  /\ \A t \in HttpTasks :
       (http[t].pc = "done" /\ http[t].kind = "push_ops"
          /\ http[t].resp.status = 200)
         => http[t].resp.body <=
              (IF http[t].workspace_id = "" THEN 0
               ELSE Cardinality({j \in 1..Len(http[t].ops) :
                                   http[t].ops[j].id # ""}))

Terminates(s) ==
  \/ sess[s].conn = "open" /\ sess'[s].conn = "closed"
  \/ /\ sess[s].fwd \in {"recv", "send"}
     /\ sess'[s].fwd \in {"aborted", "failed", "lagged"}

\* C20: a step that ends a connection's read loop or forwarding task leaves
\* the ops and snapshots tables, the store lock and the calls in progress, the
\* hub and every other session as they were.
C20_TerminationIsLocal ==
  [][\A s \in Sessions :
       Terminates(s)
         => /\ store' = store
            /\ lock' = lock /\ call' = call
            /\ hub' = hub
            /\ \A o \in Sessions \ {s} : sess'[o] = sess[o]]_vars

\* one connection has ended with an event left unread while another,
\* subscribed, has sent its client the latest event
C20_OtherStillServed ==
  \E s \in Sessions, o \in Sessions :
    /\ s # o
    /\ sess[s].conn = "closed"
    /\ Pending(sess[s].next)
    /\ sess[o].conn = "open" /\ sess[o].subs # {}
    /\ sess[o].fwd = "recv"
    /\ Len(sess[o].out) >= 1
    /\ sess[o].out[Len(sess[o].out)] = hub[Len(hub)]

\* C21: the step that takes a frame the read loop cannot use changes nothing
\* of the session, of the store or of the hub (the connection stays open, the
\* read loop and the forwarding task go on), and afterwards the read loop
\* still takes subscribe, unsubscribe and push frames.
C21_MalformedFrameTolerated ==
  /\ [][\A s \in Sessions :
          sess'[s].junk # sess[s].junk
            => /\ sess'[s] = [sess[s] EXCEPT !.junk = Some(sess[s].subs)]
               /\ store' = store /\ hub' = hub /\ call' = call]_vars
  /\ [](\A s \in Sessions :
          (sess[s].junk # Nothing /\ Reading(s) /\ left.ws > 0)
            => /\ ENABLED Subscribe(s)
               /\ ENABLED Unsubscribe(s)
               /\ ENABLED WsPush(s))

\* a session whose subscription set has changed since its last unusable frame
C21_SubscribedAfterJunk ==
  \E s \in Sessions :
    /\ sess[s].conn = "open"
    /\ sess[s].junk # Nothing
    /\ sess[s].subs # sess[s].junk[1]
    /\ sess[s].subs # {}

\* C22: after a session has taken a frame it cannot use, its client is
\* eventually sent an error frame, unless the connection ends or a send to
\* the client fails first.
C22_ErrorFrameSent ==
  \A s \in Sessions :
    (sess[s].junk # Nothing)
      ~> \/ \E i \in 1..Len(sess[s].out) : sess[s].out[i].msg_type = "error"
         \/ sess[s].conn = "closed"
         \/ sess[s].fwd = "failed"

\* C23: every row of the ops table is, with its sequence and all its columns,
\* a row of the table after every step.
C23_OpsImmutable ==
  [][\A r \in ops : r \in ops']_vars

\* a stored op was submitted again by another client, with another client_id
C23_ResubmittedWithOtherContent ==
  \E t \in Tasks :
    /\ call[t].state = "returned" /\ call[t].ok /\ ~call[t].fresh
    /\ \E r \in Rows(call[t].workspace_id, call[t].op.id) :
         r.client_id # call[t].op.client_id

\* C24: no two rows of the ops table, of one workspace or of two, have the
\* same sequence, and every row a step adds has a sequence above that of
\* every row the table held.
C24_SequencesUnique ==
  /\ [](\A r1 \in ops : \A r2 \in ops : r1.id = r2.id => r1 = r2)
  /\ [][\A r \in ops' \ ops :
          r.id > Max({0} \cup {x.id : x \in ops})]_vars

\* ops of two workspaces are stored, with a sequence in between that no
\* stored op has
C24_GapNotReused ==
  \E r1 \in ops : \E r2 \in ops :
    /\ r1.workspace_id # r2.workspace_id
    /\ r1.id + 1 < r2.id
    /\ \A r \in ops : r.id # r1.id + 1

\* C25: the step in which a get_ops or a get_snapshot request is served leaves
\* the ops table, the snapshots table and the connection's counters as they
\* were and publishes nothing.
C25_ReadsArePure ==
  [][\A t \in HttpTasks :
       ( /\ http[t].pc = "idle" /\ http'[t].pc = "done"
         /\ http'[t].kind \in {"get_ops", "get_snapshot"} )
       => store' = store /\ hub' = hub]_vars

\* get_snapshot has returned a snapshot of a store that also holds ops
C25_ReadOfFilledStore ==
  \E t \in HttpTasks :
    /\ http[t].pc = "done" /\ http[t].kind = "get_snapshot"
    /\ http[t].resp.status = 200
    /\ ops # {}

C27_LagIsLocal ==
  /\ \A o \in Sessions : \A k \in Workspaces \X OpIds :
       ( /\ owed[o][k] = "due"
         /\ \E s \in Sessions \ {o} : sess[s].fwd = "lagged" )
       ~> \/ owed[o][k] # "due"
          \/ sess[o].fwd = "failed"
          \/ Len(hub) - (sess[o].next - 1) > Capacity
  /\ [](\A t \in HttpTasks :
          ( /\ http[t].pc = "loop" /\ call[t].state = "returned"
            /\ \E s \in Sessions : sess[s].fwd = "lagged" )
          => ENABLED HttpPushOpsStep(t))

\* one session has lagged and the other has been sent the latest event
C27_OtherReceivedLatest ==
  \E s \in Sessions, o \in Sessions :
    /\ s # o
    /\ sess[s].fwd = "lagged"
    /\ sess[o].fwd = "recv"
    /\ sess[o].next = Len(hub) + 1
    /\ owed[o][FrameKey(hub[Len(hub)])] = "sent"

\* C28: a subscribe frame for a workspace the subscription set holds and an
\* unsubscribe frame for a workspace it does not hold leave the set, and
\* everything else of the session, as they were; inserting twice is inserting
\* once, and removing what is absent removes nothing.
C28_SubscriptionIsSet ==
  /\ [][\A s \in Sessions :
          sess'[s].same # sess[s].same
            => sess'[s] = [sess[s] EXCEPT !.same = sess'[s].same]]_vars
  /\ [](\A s \in Sessions : \A w \in Workspaces :
          /\ Insert(Insert(sess[s].subs, w), w) = Insert(sess[s].subs, w)
          /\ w \notin sess[s].subs => Remove(sess[s].subs, w) = sess[s].subs)

\* a session has taken a subscribe frame for a workspace it was subscribed to
C28_SubscribedTwice ==
  \E s \in Sessions :
    /\ "subscribe" \in sess[s].same
    /\ sess[s].conn = "open"
    /\ sess[s].subs # {}

\* C29: get_snapshot of a workspace without a snapshot row is None; the HTTP
\* handler answers 404 exactly then and 200 otherwise, an error status only
\* when the store call itself failed; and the step that answers 404 adds no
\* snapshot and no op.
C29_NotFoundIsNone ==
  /\ [](\A w \in Workspaces :
          {r \in snapshots : r.workspace_id = w} = {}
            => GetSnapshot(w) = Nothing)
  /\ [](\A t \in HttpTasks :
          (http[t].pc = "done" /\ http[t].kind = "get_snapshot")
            => /\ http[t].resp.status \in {200, 404, 500}
               /\ http[t].resp.status # 500
                    => ( http[t].resp.status = 404
                           <=> {r \in snapshots :
                                  r.workspace_id = http[t].workspace_id} = {} ))
  /\ [][\A t \in HttpTasks :
          ( /\ http[t].pc = "idle" /\ http'[t].pc = "done"
            /\ http'[t].kind = "get_snapshot"
            /\ left'.errors = left.errors )
          => http'[t].resp.status \in {200, 404}]_vars
  /\ [][\A t \in HttpTasks :
          ( /\ http[t].pc = "idle" /\ http'[t].pc = "done"
            /\ http'[t].kind = "get_snapshot"
            /\ http'[t].resp.status = 404 )
          => snapshots' = snapshots /\ ops' = ops]_vars

\* get_snapshot has answered not found while another workspace has a snapshot
C29_NotFoundBesideSnapshot ==
  \E t \in HttpTasks :
    /\ http[t].pc = "done" /\ http[t].kind = "get_snapshot"
    /\ http[t].resp.status = 404
    /\ snapshots # {}

\* C30: the step that serves POST /api/snapshot/{W} with 200 makes get_snapshot(W) the
\* body's data, last_op_id and updated_at, and leaves get_snapshot of the
\* body's own workspace_id, when it is not W, as it was.
C30_PathOverridesBody ==
  [][\A t \in HttpTasks :
       ( /\ http[t].pc = "idle" /\ http'[t].pc = "done"
         /\ http'[t].kind = "save_snapshot"
         /\ http'[t].resp.status = 200 )
       => \A w \in Workspaces, bw \in Workspaces :
            ( /\ http'[t].workspace_id = w
              /\ http'[t].body[1].workspace_id = bw )
            => /\ GetSnapshot(w)' =
                    Some([http'[t].body[1] EXCEPT !.workspace_id = w])
               /\ bw # w => GetSnapshot(bw)' = GetSnapshot(bw)]_vars

\* a snapshot was saved under a path other than the body's workspace_id,
\* which has a snapshot with other data
C30_SavedUnderPath ==
  \E t \in HttpTasks :
    /\ http[t].pc = "done" /\ http[t].kind = "save_snapshot"
    /\ http[t].resp.status = 200
    /\ http[t].body[1].workspace_id # http[t].workspace_id
    /\ \E r \in snapshots :
         /\ r.workspace_id = http[t].body[1].workspace_id
         /\ r.data # http[t].body[1].data

\* C31: the step in which get_ops, get_snapshot or save_snapshot is served
\* while its store call fails answers 500 and leaves the ops and the snapshots
\* as they were, and these handlers answer 500 only then.
C31_StoreErrorIs500 ==
  [][\A t \in HttpTasks :
       ( /\ http[t].pc = "idle" /\ http'[t].pc = "done"
         /\ http'[t].kind \in {"get_ops", "get_snapshot", "save_snapshot"} )
       => IF left'.errors < left.errors
          THEN /\ http'[t].resp.status = 500
               /\ ops' = ops
               /\ snapshots' = snapshots
          ELSE http'[t].resp.status # 500]_vars

\* a save_snapshot was answered 500 by a store that holds ops and an earlier
\* snapshot of the same workspace
C31_FailedOverFilledStore ==
  \E t \in HttpTasks :
    /\ http[t].pc = "done" /\ http[t].kind = "save_snapshot"
    /\ http[t].resp.status = 500
    /\ ops # {}
    /\ \E r \in snapshots :
         /\ r.workspace_id = http[t].workspace_id
         /\ r.data # http[t].snapshot[1].data

\* C32: at most one task is inside a store operation: one task at most is
\* between push_op's insert and its read of the returned sequence, and it is
\* the holder of the mutex; while it is there no step changes the store, and
\* no get_ops, get_snapshot or save_snapshot is served.
C32_StoreCallsExclusive ==
  /\ [](Cardinality({t \in Tasks : call[t].state = "inserted"}) <= 1)
  /\ [](\A t \in Tasks : call[t].state = "inserted" <=> lock = t)
  /\ [][(\E t \in Tasks : call[t].state = "inserted")
          => /\ store' = store
             /\ \A h \in HttpTasks :
                  ~( /\ http[h].pc = "idle" /\ http'[h].pc = "done"
                     /\ http'[h].kind \in
                          {"get_ops", "get_snapshot", "save_snapshot"} )]_vars

\* a session is inside push_op while an HTTP handler's call waits for the mutex
C32_WaitingForMutex ==
  \E s \in Sessions, h \in HttpTasks :
    /\ call[s].state = "inserted"
    /\ call[h].state = "called"
    /\ lock = s

\* C33: while a session's read loop runs, and no send to its client has
\* failed, its forwarding task is running: it waits on the hub receive handle
\* or sends a frame.
C33_ForwardingWhileReading ==
  \A s \in Sessions :
    (sess[s].conn = "open" /\ sess[s].fwd # "failed")
      => sess[s].fwd \in {"recv", "send"}

\* the batch a task is working on or has last worked on
BatchOf(t) == IF t \in HttpTasks THEN http[t] ELSE sess[t]

\* C34: of two ops of one batch (HTTP or push frame) that were both newly
\* stored, the one earlier in the batch has the smaller sequence, comes first
\* in get_ops(W), and get_ops(W, its sequence) holds the later one and not it.
C34_BatchOrder ==
  \A t \in Tasks :
    LET b == BatchOf(t)
        w == b.workspace_id
    IN \A i \in b.firsts, j \in b.firsts :
         i < j =>
           LET si == StoredSeq(<<w, b.ops[i].id>>)
               sj == StoredSeq(<<w, b.ops[j].id>>)
               all == GetOps(w, Nothing)
               rest == GetOps(w, Some(si))
           IN /\ si < sj
              /\ \E m \in Entries(all, b.ops[i].id) :
                   \E n \in Entries(all, b.ops[j].id) : m < n
              /\ Entries(rest, b.ops[j].id) # {}
              /\ Entries(rest, b.ops[i].id) = {}

\* a push frame's batch of two ops, both newly stored, has been worked off
C34_TwoNewInFrame ==
  \E s \in Sessions :
    /\ sess[s].firsts = {1, 2}
    /\ sess[s].read = "idle"

\* C35: a session that has not connected has an empty subscription set and
\* connects with an empty one; a step that changes a session's set is the read
\* loop of that session taking one frame, which adds or removes one workspace,
\* starts no push, is not a dropped frame, and leaves the other sessions, the
\* HTTP requests, the hub and the store as they were.
C35_OnlyOwnSubscribeFrames ==
  /\ [](\A s \in Sessions : sess[s].conn = "absent" => sess[s].subs = {})
  /\ [][\A s \in Sessions :
          /\ (sess[s].conn = "absent" /\ sess'[s].conn = "open")
               => sess'[s].subs = {}
          /\ sess'[s].subs # sess[s].subs
               => /\ Reading(s)
                  /\ left'.ws = left.ws - 1
                  /\ \E w \in Workspaces :
                       \/ sess'[s].subs = Insert(sess[s].subs, w)
                       \/ sess'[s].subs = Remove(sess[s].subs, w)
                  /\ sess'[s] = [sess[s] EXCEPT !.subs = sess'[s].subs,
                                                !.ever = sess'[s].ever,
                                                !.same = sess'[s].same,
                                                !.cut = sess'[s].cut,
                                                !.since = sess'[s].since]
                  /\ \A o \in Sessions \ {s} : sess'[o] = sess[o]
                  /\ call' = call /\ http' = http /\ hub' = hub
                  /\ store' = store]_vars

\* one session is subscribed; the other has taken a frame it dropped and
\* holds no subscription
C35_OtherSessionUntouched ==
  \E s \in Sessions, o \in Sessions :
    /\ s # o
    /\ sess[s].subs # {} /\ sess[s].conn = "open"
    /\ sess[o].conn = "open" /\ sess[o].junk # Nothing /\ sess[o].subs = {}

\* frames for workspace w sent to the client of s after its last unsubscribe(w)
SentAfterCut(s, w) ==
  {i \in 1..Len(sess[s].out) :
     i > sess[s].cut[w] /\ sess[s].out[i].workspace_id = w}

\* C36 as stated: after a session's read loop has processed unsubscribe(W),
\* and until it processes subscribe(W), no op frame for W is sent to its client.
C36_NoFrameAfterUnsubscribe ==
  \A s \in Sessions, w \in Workspaces :
    sess[s].cut[w] >= 0 => SentAfterCut(s, w) = {}

\* C36, amended: after unsubscribe(W), and until subscribe(W), at most one op
\* frame for W reaches the client, the one the forwarding task had checked
\* against the set before the unsubscribe and not yet sent: the frames for W
\* sent since, and the frame for W waiting to be sent, are at most one.
C36_AtMostTheFrameInFlight ==
  \A s \in Sessions, w \in Workspaces :
    sess[s].cut[w] >= 0 =>
      /\ w \notin sess[s].subs
      /\ Cardinality(SentAfterCut(s, w))
           + (IF sess[s].fwd = "send" /\ sess[s].msg.workspace_id = w
              THEN 1 ELSE 0) <= 1

\* a frame for a workspace was sent after its unsubscribe, and a later event
\* of that workspace was examined and discarded
C36_LateFrameThenDiscarded ==
  \E s \in Sessions, w \in Workspaces :
    /\ sess[s].cut[w] >= 0
    /\ Cardinality(SentAfterCut(s, w)) = 1
    /\ sess[s].fwd = "recv"
    /\ sess[s].next = 3
    /\ hub[2].workspace_id = w

\* C37: when the forwarding task takes an event from its receive handle, it
\* passes it on to be sent exactly if the event's workspace is in the
\* subscription set at that moment: an event published before the session
\* subscribed is passed on when the set holds its workspace by then, an event
\* published while the session was subscribed is dropped when the set no
\* longer holds it.
C37_FilteredWhenExamined ==
  [][\A s \in Sessions :
       (sess[s].fwd = "recv" /\ sess'[s].next = sess[s].next + 1)
       => LET msg == hub[sess[s].next]
              w == msg.workspace_id
          IN /\ w \in sess[s].subs
                  => sess'[s].fwd = "send" /\ sess'[s].msg = msg
             /\ w \notin sess[s].subs
                  => sess'[s].fwd = "recv" /\ sess'[s].msg = NoMsg
             /\ sess'[s].out = sess[s].out]_vars

\* the client was sent the first event, published before the session
\* subscribed, and the second event, published after the subscribe, was
\* examined after the unsubscribe and dropped
C37_EarlySentLateDropped ==
  \E s \in Sessions, w \in Workspaces :
    /\ Len(hub) = 2 /\ hub[1].workspace_id = w /\ hub[2].workspace_id = w
    /\ sess[s].since[w] = 1
    /\ sess[s].cut[w] = 1
    /\ sess[s].out = <<hub[1]>>
    /\ sess[s].next = 3 /\ sess[s].fwd = "recv"

\* C38: when the forwarding task of a session takes an event whose op that
\* session itself submitted with a push frame, and the session's set holds
\* the event's workspace, the event is passed on to be sent as for any other
\* session, and the send that succeeds puts that frame on the session's own
\* connection.
C38_NoSenderExclusion ==
  [][\A s \in Sessions :
       /\ ( /\ sess[s].fwd = "recv" /\ sess'[s].next = sess[s].next + 1
            /\ hub[sess[s].next].ops[1].client_id = s
            /\ hub[sess[s].next].workspace_id \in sess[s].subs )
          => sess'[s].fwd = "send" /\ sess'[s].msg = hub[sess[s].next]
       /\ ( /\ sess[s].fwd = "send" /\ sess'[s].fwd = "recv"
            /\ sess[s].msg.ops[1].client_id = s )
          => sess'[s].out = Append(sess[s].out, sess[s].msg)]_vars

\* a session was sent the op frame of an op it pushed itself
C38_SentOwnOp ==
  \E s \in Sessions :
    /\ sess[s].conn = "open"
    /\ \E i \in 1..Len(sess[s].out) :
         /\ sess[s].out[i].ops[1].client_id = s
         /\ sess[s].out[i].workspace_id = sess[s].workspace_id
         /\ sess[s].out[i].ops[1] = sess[s].ops[1]

\* C39: the event a publishing step puts on the hub is the op frame of the op
\* at the publishing task's place in its batch, field for field as the client
\* submitted it, with the client's db_id and not the stored sequence, also
\* when the store holds other content for that (workspace_id, op id).
C39_PublishedAsSubmitted ==
  [][hub' # hub
       => \E t \in Tasks :
            /\ call[t].state = "returned" /\ call'[t] # call[t]
            /\ LET b == BatchOf(t)
                   op == b.ops[b.i]
               IN /\ op \in ClientOps(t)
                  /\ hub' = Append(hub,
                       [msg_type |-> "op", workspace_id |-> b.workspace_id,
                        ops |-> <<op>>, error |-> None])]_vars

\* an event was published for an op whose stored row came from another client
C39_PublishedOverOtherRow ==
  \E i \in 1..Len(hub) : \E r \in ops :
    /\ r.workspace_id = hub[i].workspace_id
    /\ r.op_id = hub[i].ops[1].id
    /\ r.client_id # hub[i].ops[1].client_id
    /\ hub[i].ops[1].db_id = Nothing

====
